---- MODULE Spec2Model ----
(***************************************************************************)
(* Model of the movies-next fetch orchestrator (core/api/moviesApi.ts),    *)
(* the directors service and the useDirectorsAggregation hook, together    *)
(* with the pure helpers they call.                                        *)
(*                                                                         *)
(* Execution model: one JavaScript event loop.  Every action below is one  *)
(* task (or one synchronous call made by a caller inside a task) together  *)
(* with all the promise continuations (microtasks) it triggers.            *)
(***************************************************************************)
EXTENDS Integers, Sequences, FiniteSets, TLC

(***************************************************************************)
(* Bounds of the model.                                                    *)
(***************************************************************************)
MaxPages == 2
MaxRequests == 2
MaxCalls == 2
NumCallerSignals == 1
MaxErrorCalls == 1
MaxAlls == 2
MaxAllPages == 3
MaxAllRequests == MaxAllPages
MaxHookRuns == 2
MaxHookRequests == 2
MaxOtherAlls == 1

(***************************************************************************)
(* Strings are sequences of one-character strings.                         *)
(***************************************************************************)
IsSpace(c) == c \in {" ", "\t", "\n"}

ToLowerChar(c) ==
  CASE c = "A" -> "a"
    [] c = "B" -> "b"
    [] c = "H" -> "h"
    [] c = "I" -> "i"
    [] c = "M" -> "m"
    [] c = "N" -> "n"
    [] OTHER -> c

RECURSIVE TrimStart(_)
TrimStart(s) ==
  IF s = <<>> THEN <<>>
  ELSE IF IsSpace(Head(s)) THEN TrimStart(Tail(s)) ELSE s

RECURSIVE TrimEnd(_)
TrimEnd(s) ==
  IF s = <<>> THEN <<>>
  ELSE IF IsSpace(s[Len(s)]) THEN TrimEnd(SubSeq(s, 1, Len(s) - 1)) ELSE s

\* String.prototype.trim
Trim(s) == TrimEnd(TrimStart(s))

\* String.prototype.toLowerCase
ToLowerCase(s) == [i \in 1..Len(s) |-> ToLowerChar(s[i])]

\* s.replace(/\s+/g, " "): every maximal run of whitespace becomes one space
RECURSIVE CollapseSpaces(_)
CollapseSpaces(s) ==
  IF s = <<>> THEN <<>>
  ELSE IF IsSpace(Head(s))
       THEN <<" ">> \o CollapseSpaces(TrimStart(s))
       ELSE <<Head(s)>> \o CollapseSpaces(Tail(s))

\* safeString on a string value: String(value).trim()
safeString(value) == Trim(value)

\* Variant of the key that keeps runs of whitespace
NormalizeWithoutCollapse(director) == ToLowerCase(safeString(director))

normalizeDirectorName(director) == CollapseSpaces(ToLowerCase(safeString(director)))

\* value.split(","): the pieces between commas (always at least one piece)
RECURSIVE SplitComma(_, _)
SplitComma(s, cur) ==
  IF s = <<>> THEN <<cur>>
  ELSE IF Head(s) = "," THEN <<cur>> \o SplitComma(Tail(s), <<>>)
       ELSE SplitComma(Tail(s), Append(cur, Head(s)))

parseCommaSeparated(value) ==
  IF value = <<>> \/ value = <<"N", "/", "A">> THEN <<>>
  ELSE LET pieces == SplitComma(value, <<>>)
           trimmed == [i \in 1..Len(pieces) |-> Trim(pieces[i])]
       IN SelectSeq(trimmed, LAMBDA item : Len(item) > 0)

(***************************************************************************)
(* a.localeCompare(b, undefined, {sensitivity: "base"}): primary collation *)
(* weights only, so case is ignored; whitespace and punctuation sort       *)
(* before digits and letters.  Returns -1, 0 or 1.                         *)
(***************************************************************************)
\* Variant of the comparator that tells case apart (upper case first)
CaseSensitiveWeight(c) ==
  CASE IsSpace(c) -> 1
    [] c = "," -> 2
    [] c = "/" -> 3
    [] c = "A" -> 10
    [] c = "B" -> 11
    [] c = "N" -> 12
    [] c = "a" -> 13
    [] c = "b" -> 14
    [] c = "n" -> 15
    [] OTHER -> 20

PrimaryWeight(c) ==
  CASE IsSpace(c) -> 1
    [] c = "," -> 2
    [] c = "/" -> 3
    [] ToLowerChar(c) = "a" -> 10
    [] ToLowerChar(c) = "b" -> 11
    [] ToLowerChar(c) = "n" -> 12
    [] OTHER -> 20

RECURSIVE localeCompareBase(_, _)
localeCompareBase(a, b) ==
  IF a = <<>> /\ b = <<>> THEN 0
  ELSE IF a = <<>> THEN -1
  ELSE IF b = <<>> THEN 1
  ELSE IF PrimaryWeight(Head(a)) < PrimaryWeight(Head(b)) THEN -1
  ELSE IF PrimaryWeight(Head(a)) > PrimaryWeight(Head(b)) THEN 1
  ELSE localeCompareBase(Tail(a), Tail(b))

\* Array.prototype.sort with the comparator above (stable insertion sort)
RECURSIVE InsertSorted(_, _)
InsertSorted(sorted, x) ==
  IF sorted = <<>> THEN <<x>>
  ELSE IF localeCompareBase(x.name, Head(sorted).name) < 0
       THEN <<x>> \o sorted
       ELSE <<Head(sorted)>> \o InsertSorted(Tail(sorted), x)

RECURSIVE SortByName(_)
SortByName(result) ==
  IF result = <<>> THEN <<>>
  ELSE InsertSorted(SortByName(SubSeq(result, 1, Len(result) - 1)), result[Len(result)])

(***************************************************************************)
(* aggregateDirectors.  directorMap is a sequence of entries               *)
(* [key, originalName, count] in insertion order (a JS Map iterates in     *)
(* insertion order).  A threshold is a JS number <<kind, value>>, kind in  *)
(* "fin", "nan", "inf" (value is the sign for "inf").                      *)
(***************************************************************************)
NumberIsFinite(t) == t[1] = "fin"

\* Variant of aggregateDirectors without the threshold < 0 case
LessThanZeroNotTested(t) == FALSE

\* t < 0 in JS: false for NaN
LessThanZero(t) == t[1] # "nan" /\ t[2] < 0

\* Variant of the filter with >= in place of >
GreaterOrEqual(count, t) ==
  CASE t[1] = "fin" -> count >= t[2]
    [] t[1] = "inf" -> t[2] < 0
    [] OTHER -> FALSE

\* Variant of the filter with the comparison turned round (count < t)
LessThanThreshold(count, t) ==
  CASE t[1] = "fin" -> count < t[2]
    [] t[1] = "inf" -> t[2] > 0
    [] OTHER -> FALSE

\* count > t in JS, count a non-negative integer
GreaterThan(count, t) ==
  CASE t[1] = "fin" -> count > t[2]
    [] t[1] = "inf" -> t[2] < 0
    [] OTHER -> FALSE

RECURSIVE CountDirector(_, _)
CountDirector(directorMap, director) ==
  LET normalized == normalizeDirectorName(director) IN
  IF normalized = <<>> THEN directorMap
  ELSE IF \E i \in 1..Len(directorMap) : directorMap[i].key = normalized
       THEN [i \in 1..Len(directorMap) |->
               IF directorMap[i].key = normalized
               THEN [directorMap[i] EXCEPT !.count = @ + 1]
               ELSE directorMap[i]]
       ELSE Append(directorMap,
                   [key |-> normalized, originalName |-> Trim(director), count |-> 1])

RECURSIVE CountDirectors(_, _)
CountDirectors(directorMap, directors) ==
  IF directors = <<>> THEN directorMap
  ELSE CountDirectors(CountDirector(directorMap, Head(directors)), Tail(directors))

RECURSIVE CountMovies(_, _)
CountMovies(directorMap, movies) ==
  IF movies = <<>> THEN directorMap
  ELSE CountMovies(CountDirectors(directorMap, parseCommaSeparated(Head(movies).Director)),
                   Tail(movies))

aggregateDirectors(movies, threshold) ==
  IF Len(movies) = 0 THEN <<>>
  ELSE IF LessThanZero(threshold) THEN <<>>
  ELSE LET directorMap == CountMovies(<<>>, movies)
           kept == SelectSeq(directorMap, LAMBDA v : GreaterThan(v.count, threshold))
           result == [i \in 1..Len(kept) |->
                        [name |-> kept[i].originalName, count |-> kept[i].count]]
       IN SortByName(result)

(***************************************************************************)
(* The remote API.  The data set is fixed for a run: serverPages pages,    *)
(* page p holding the movies PageData(p).                                  *)
(***************************************************************************)
DirectorOfPage(p) ==
  CASE p % 3 = 1 -> <<"A">>
    [] p % 3 = 2 -> <<" ", "a">>
    [] OTHER -> <<"B", ",", "A">>

PageData(p) == <<[Title |-> p, Director |-> DirectorOfPage(p)]>>

\* The MoviesResponse the API sends for page p when it holds n pages
MoviesResponse(p, n) ==
  [kind |-> "data", page |-> p, total_pages |-> n,
   data |-> IF p <= n THEN PageData(p) ELSE <<>>]

(***************************************************************************)
(* Promise results.  statusCode 0 stands for undefined.                    *)
(***************************************************************************)
Pending == [kind |-> "pending"]

ApiError(message, statusCode, originalError) ==
  [kind |-> "error", name |-> "ApiError", message |-> message,
   statusCode |-> statusCode, originalError |-> originalError]

NetworkError(message, originalError) ==
  [ApiError(message, 0, originalError) EXCEPT !.name = "NetworkError"]

ValidationError(message) ==
  [ApiError(message, 0, "none") EXCEPT !.name = "ValidationError"]

AbortError == [ApiError("Request was cancelled", 0, "none") EXCEPT !.name = "AbortError"]

(***************************************************************************)
(* What the try block of a page request throws (or returns) for each thing *)
(* the network can do.  A thrown value is [type, name, statusCode].        *)
(***************************************************************************)
FetchCauses == {"transport", "http404", "http500", "ok"}
JsonCauses == {"transport", "syntax", "notObject", "noDataArray", "data"}

Thrown(cause) ==
  CASE cause = "abort" -> [type |-> "DOMException", name |-> "AbortError", statusCode |-> 0,
                           message |-> "Aborted"]
    [] cause = "transport" -> [type |-> "TypeError", name |-> "TypeError", statusCode |-> 0,
                               message |-> "Failed to fetch"]
    [] cause = "http404" -> [type |-> "ApiError", name |-> "ApiError", statusCode |-> 404,
                             message |-> "API request failed"]
    [] cause = "http500" -> [type |-> "ApiError", name |-> "ApiError", statusCode |-> 500,
                             message |-> "API request failed"]
    [] cause = "syntax" -> [type |-> "SyntaxError", name |-> "SyntaxError", statusCode |-> 0,
                            message |-> "Unexpected token"]
    [] cause = "notObject" -> [type |-> "ApiError", name |-> "ApiError", statusCode |-> 0,
                               message |-> "Invalid response format from API"]
    [] cause = "noDataArray" -> [type |-> "ApiError", name |-> "ApiError", statusCode |-> 0,
                                 message |-> "Invalid response: missing or invalid 'data' array"]

\* Variant of the catch block without the TypeError case
CatchErrorNoNetworkCase(error) ==
  IF error.type = "DOMException" /\ error.name = "AbortError" THEN AbortError
  ELSE IF error.name = "AbortError" THEN AbortError
  ELSE IF error.type = "ApiError" THEN ApiError(error.message, error.statusCode, "none")
  ELSE ApiError("Unexpected error during API request", 0, error.type)

\* The catch block of the page request
CatchError(error) ==
  IF error.type = "DOMException" /\ error.name = "AbortError" THEN AbortError
  ELSE IF error.name = "AbortError" THEN AbortError
  ELSE IF error.type = "TypeError" THEN NetworkError("Network request failed", error.type)
  ELSE IF error.type = "ApiError" THEN ApiError(error.message, error.statusCode, "none")
  ELSE ApiError("Unexpected error during API request", 0, error.type)

\* The result the page request settles with
RequestResult(cause, page, n) ==
  IF cause = "data" THEN MoviesResponse(page, n) ELSE CatchError(Thrown(cause))

(***************************************************************************)
(* State.                                                                  *)
(***************************************************************************)
VARIABLES
  inflightRequests,  \* the Map page -> request: a function whose domain is the keys
  requests,          \* every page request dispatched so far (the promises of the IIFE)
  aborted,           \* the AbortSignals that are aborted
  calls,             \* the promises returned to direct callers of fetchMoviesPage
  alls,              \* the fetchAllMovies invocations
  hook,              \* the state of one useDirectorsAggregation instance
  serverPages,       \* total_pages of the remote data set
  input,             \* the arguments of one call of a pure function
  output             \* what that call returned or threw

vars == <<inflightRequests, requests, aborted, calls, alls, hook, serverPages, input,
         output>>

Pages == 1..MaxPages
CallerSignals == 1..NumCallerSignals
\* The signal of the AbortController created by the k-th run of the hook's effect
HookSignal(k) == NumCallerSignals + k

Range(f) == {f[i] : i \in DOMAIN f}

\* Map operations on inflightRequests
MapHas(map, key) == key \in DOMAIN map
MapSet(map, key, value) ==
  [k \in DOMAIN map \cup {key} |-> IF k = key THEN value ELSE map[k]]
MapDelete(map, key) == [k \in DOMAIN map \ {key} |-> map[k]]
MapClear == <<>>
MapSize(map) == Cardinality(DOMAIN map)

(***************************************************************************)
(* fetchMoviesPage(page, signal) as a function of the cache and the        *)
(* requests.  Page arguments are carried in halves (3 stands for 1.5) so   *)
(* that a non-integer page is an input; signal 0 stands for no signal.     *)
(* The IIFE runs up to its first await, so fetch() is called, and only     *)
(* then is the promise stored in the Map.                                  *)
(***************************************************************************)
NumberIsInteger(h) == h % 2 = 0

\* Variant of the validation without the Number.isInteger test
ValidPageNoIntegerTest(h) == h >= 2

\* if (!Number.isInteger(page) || page < 1) throw new ValidationError(...)
ValidPage(h) == NumberIsInteger(h) /\ h >= 2

CacheStore(cache, page, id) == MapSet(cache, page, id)

fetchMoviesPage(h, signal, cache, reqs) ==
  IF ~ValidPage(h)
  THEN [error |-> TRUE, req |-> 0, cache |-> cache, reqs |-> reqs]
  ELSE LET page == h \div 2 IN
       IF MapHas(cache, page)
       THEN [error |-> FALSE, req |-> cache[page], cache |-> cache, reqs |-> reqs]
       ELSE LET id == Len(reqs) + 1 IN
            [error |-> FALSE, req |-> id,
             cache |-> CacheStore(cache, page, id),
             reqs |-> Append(reqs, [page |-> page, signal |-> signal, pc |-> "fetch",
                                    cause |-> "none", result |-> Pending])]

InitState ==
  /\ inflightRequests = <<>>
  /\ requests = <<>>
  /\ aborted = {}
  /\ calls = {}
  /\ alls = <<>>
  /\ hook = [phase |-> "init", threshold |-> <<"nan", 0>>, directors |-> <<>>,
             loading |-> FALSE, error |-> [kind |-> "none"], ref |-> 0, cleanup |-> 0,
             runs |-> 0]
  /\ input = [fn |-> "none"]
  /\ output = [done |-> FALSE]

\* A direct caller calls fetchMoviesPage(h/2, signal)
FetchMoviesPageCall(h, signal) ==
  /\ LET res == fetchMoviesPage(h, signal, inflightRequests, requests) IN
       /\ inflightRequests' = res.cache
       /\ requests' = res.reqs
       /\ calls' = calls \cup
            {[page |-> h, signal |-> signal, req |-> res.req,
              result |-> IF res.error THEN ValidationError("Invalid page number") ELSE Pending]}
  /\ UNCHANGED <<aborted, alls, hook, serverPages, input, output>>

\* A caller aborts its AbortController (controller.abort() with no reason)
Abort(signal) ==
  /\ signal \notin aborted
  /\ aborted' = aborted \cup {signal}
  /\ UNCHANGED <<inflightRequests, requests, calls, alls, hook, serverPages, input, output>>

\* cancelAllRequests(): inflightRequests.clear()
CancelAllRequests ==
  /\ inflightRequests' = MapClear
  /\ UNCHANGED <<requests, aborted, calls, alls, hook, serverPages, input, output>>

\* getInflightRequestCount(): inflightRequests.size
getInflightRequestCount == MapSize(inflightRequests)

(***************************************************************************)
(* fetchAllMovies(signal).  An invocation is                               *)
(*   [signal, owner, threshold, state, promises, movies, error]            *)
(* owner 0 is a direct caller (moviesService, useFilterOptions), owner k   *)
(* the k-th run of the hook's effect, whose closure holds threshold.       *)
(* promises[1] is the promise of page 1, the rest is pagePromises.         *)
(***************************************************************************)
\* The synchronous part of fetchAllMovies: up to `await fetchMoviesPage(1, signal)`
StartAll(signal, owner, threshold, cache, reqs) ==
  LET res == fetchMoviesPage(2, signal, cache, reqs) IN
  [cache |-> res.cache, reqs |-> res.reqs,
   all |-> [signal |-> signal, owner |-> owner, threshold |-> threshold,
            state |-> "page1", promises |-> <<res.req>>, movies |-> <<>>,
            error |-> [kind |-> "none"]]]

\* Variant of the loop that stops before the last page (page < total_pages)
RECURSIVE PagePromisesExclusive(_, _, _, _, _, _)
PagePromisesExclusive(page, total_pages, signal, cache, reqs, pagePromises) ==
  IF page >= total_pages
  THEN [cache |-> cache, reqs |-> reqs, pagePromises |-> pagePromises]
  ELSE LET res == fetchMoviesPage(2 * page, signal, cache, reqs) IN
       PagePromisesExclusive(page + 1, total_pages, signal, res.cache, res.reqs,
                             Append(pagePromises, res.req))

\* for (let page = 2; page <= total_pages; page++) pagePromises.push(fetchMoviesPage(page, signal))
RECURSIVE PagePromises(_, _, _, _, _, _)
PagePromises(page, total_pages, signal, cache, reqs, pagePromises) ==
  IF page > total_pages
  THEN [cache |-> cache, reqs |-> reqs, pagePromises |-> pagePromises]
  ELSE LET res == fetchMoviesPage(2 * page, signal, cache, reqs) IN
       PagePromises(page + 1, total_pages, signal, res.cache, res.reqs,
                    Append(pagePromises, res.req))

\* for (const response of responses) allMovies.push(...response.data):
\* responses is in the order of pagePromises
RECURSIVE CollectMovies(_, _, _)
CollectMovies(allMovies, pagePromises, reqs) ==
  IF pagePromises = <<>> THEN allMovies
  ELSE CollectMovies(allMovies \o reqs[Head(pagePromises)].result.data,
                     Tail(pagePromises), reqs)

\* The hook's continuation of `await directorsService.getByThreshold(...)`:
\* every write is guarded by !abortController.signal.aborted
HookSettled(h, all, abortedNow) ==
  IF all.owner = 0 \/ all.signal \in abortedNow THEN h
  ELSE IF all.state = "resolved"
       THEN [h EXCEPT !.directors = aggregateDirectors(all.movies, all.threshold),
                      !.error = [kind |-> "none"],
                      !.loading = FALSE]
       ELSE [h EXCEPT !.error = all.error, !.directors = <<>>, !.loading = FALSE]

\* st = [cache, reqs, alls, hook]
FinishAll(i, done, st) ==
  [st EXCEPT !.alls[i] = done, !.hook = HookSettled(st.hook, done, aborted)]

\* The continuation of `await fetchMoviesPage(1, signal)` in fetchAllMovies
AfterFirstPage(i, result, st) ==
  LET a == st.alls[i] IN
  IF result.kind = "error"
  THEN FinishAll(i, [a EXCEPT !.state = "rejected", !.error = result], st)
  ELSE LET total_pages == result.total_pages
           allMovies == result.data
       IN IF total_pages <= 1
          THEN FinishAll(i, [a EXCEPT !.state = "resolved", !.movies = allMovies], st)
          ELSE LET d == PagePromises(2, total_pages, a.signal, st.cache, st.reqs, <<>>) IN
               [st EXCEPT !.cache = d.cache, !.reqs = d.reqs,
                          !.alls[i] = [a EXCEPT !.state = "rest", !.movies = allMovies,
                                                !.promises = @ \o d.pagePromises]]

\* Variant that pushes each page's movies as its response arrives
AfterPromiseAllByArrival(i, result, st) ==
  LET a == st.alls[i]
      pagePromises == Tail(a.promises)
  IN IF result.kind = "error"
     THEN FinishAll(i, [a EXCEPT !.state = "rejected", !.error = result], st)
     ELSE LET pushed == [a EXCEPT !.movies = @ \o result.data] IN
          IF \A q \in Range(pagePromises) : st.reqs[q].result.kind = "data"
          THEN FinishAll(i, [pushed EXCEPT !.state = "resolved"], st)
          ELSE [st EXCEPT !.alls[i] = pushed]

\* Variant with Promise.allSettled: a failed page is left out of the result
RECURSIVE CollectFulfilled(_, _, _)
CollectFulfilled(allMovies, pagePromises, reqs) ==
  IF pagePromises = <<>> THEN allMovies
  ELSE CollectFulfilled(
         IF reqs[Head(pagePromises)].result.kind = "data"
         THEN allMovies \o reqs[Head(pagePromises)].result.data ELSE allMovies,
         Tail(pagePromises), reqs)

AfterPromiseAllSettled(i, result, st) ==
  LET a == st.alls[i]
      pagePromises == Tail(a.promises)
  IN IF \A q \in Range(pagePromises) : st.reqs[q].pc = "done"
     THEN FinishAll(i, [a EXCEPT !.state = "resolved",
                                 !.movies = CollectFulfilled(a.movies, pagePromises,
                                                             st.reqs)], st)
     ELSE st

\* Promise.all(pagePromises): rejects with the first rejection, resolves once
\* every promise is fulfilled
AfterPromiseAll(i, result, st) ==
  LET a == st.alls[i]
      pagePromises == Tail(a.promises)
  IN IF result.kind = "error"
     THEN FinishAll(i, [a EXCEPT !.state = "rejected", !.error = result], st)
     ELSE IF \A q \in Range(pagePromises) : st.reqs[q].result.kind = "data"
          THEN FinishAll(i, [a EXCEPT !.state = "resolved",
                                      !.movies = CollectMovies(a.movies, pagePromises,
                                                               st.reqs)], st)
          ELSE st

\* The continuations that request r's settlement resumes, in the order in
\* which the invocations started waiting
RECURSIVE ResumeAlls(_, _, _, _)
ResumeAlls(i, r, result, st) ==
  IF i > Len(st.alls) THEN st
  ELSE LET a == st.alls[i]
           next == IF a.state = "page1" /\ a.promises[1] = r
                     THEN AfterFirstPage(i, result, st)
                   ELSE IF a.state = "rest" /\ r \in Range(Tail(a.promises))
                     THEN AfterPromiseAll(i, result, st)
                   ELSE st
       IN ResumeAlls(i + 1, r, result, next)

\* Variant of the request without its finally block
CleanupSkipped(cache, page, r) == cache

\* finally { inflightRequests.delete(page) }
Cleanup(cache, page, r) == MapDelete(cache, page)

(***************************************************************************)
(* Request r settles with `result`: the finally block runs, the promise    *)
(* settles, and the continuations waiting on it run.                       *)
(***************************************************************************)
Settle(r, cause) ==
  LET result == RequestResult(cause, requests[r].page, serverPages)
      st0 == [cache |-> Cleanup(inflightRequests, requests[r].page, r),
              reqs |-> [requests EXCEPT ![r].pc = "done", ![r].cause = cause,
                                        ![r].result = result],
              alls |-> alls,
              hook |-> hook]
      st == ResumeAlls(1, r, result, st0)
  IN /\ inflightRequests' = st.cache
     /\ requests' = st.reqs
     /\ alls' = st.alls
     /\ hook' = st.hook
     /\ calls' = {IF c.req = r THEN [c EXCEPT !.result = result] ELSE c : c \in calls}
     /\ UNCHANGED <<aborted, serverPages, input, output>>

IsPending(req) == req.pc # "done"

\* A rejection caused by abort() is already queued: it runs before any later task
AbortDue == \E r \in DOMAIN requests : IsPending(requests[r]) /\ requests[r].signal \in aborted

\* The fetch() promise of request r rejects with the DOMException of an aborted signal
AbortSettles(r) ==
  /\ IsPending(requests[r])
  /\ requests[r].signal \in aborted
  /\ Settle(r, "abort")

\* The fetch() promise of request r settles: a transport failure, a non-OK
\* response, or an OK response whose body is then read
FetchSettles(r, cause) ==
  /\ requests[r].pc = "fetch"
  /\ ~AbortDue
  /\ IF cause = "ok"
     THEN /\ requests' = [requests EXCEPT ![r].pc = "json"]
          /\ UNCHANGED <<inflightRequests, aborted, calls, alls, hook, serverPages, input, output>>
     ELSE Settle(r, cause)

\* response.json() of request r settles
JsonSettles(r, cause) ==
  /\ requests[r].pc = "json"
  /\ ~AbortDue
  /\ Settle(r, cause)

\* A direct caller calls fetchAllMovies(signal)
FetchAllMoviesCall(signal) ==
  /\ LET s == StartAll(signal, 0, <<"nan", 0>>, inflightRequests, requests) IN
       /\ inflightRequests' = s.cache
       /\ requests' = s.reqs
       /\ alls' = Append(alls, s.all)
  /\ UNCHANGED <<aborted, calls, hook, serverPages, input, output>>

(***************************************************************************)
(* useDirectorsAggregation(threshold).  hook is                            *)
(*   [phase, threshold, directors, loading, error, ref, cleanup, runs]     *)
(* ref is abortControllerRef.current and cleanup the controller the        *)
(* current effect's cleanup function aborts (both as signals, 0 for none). *)
(***************************************************************************)
Thresholds == {<<"fin", -1>>, <<"fin", 0>>, <<"fin", 1>>, <<"nan", 0>>, <<"inf", 1>>}

\* directorsService.getByThreshold(threshold, signal) up to its first await
getByThreshold(threshold, signal, owner, cache, reqs) ==
  IF ~NumberIsFinite(threshold)
  THEN [cache |-> cache, reqs |-> reqs,
        all |-> [signal |-> signal, owner |-> owner, threshold |-> threshold,
                 state |-> "rejected", promises |-> <<>>, movies |-> <<>>,
                 error |-> [kind |-> "error", name |-> "Error",
                            message |-> "Threshold must be a finite number",
                            statusCode |-> 0, originalError |-> "none"]]]
  ELSE StartAll(signal, owner, threshold, cache, reqs)

\* Variant of the validation without the test for negative numbers
InvalidThresholdNotFinite(threshold) == ~NumberIsFinite(threshold)

\* The effect's validation: if (!Number.isFinite(threshold) || threshold < 0)
InvalidThreshold(threshold) == ~NumberIsFinite(threshold) \/ LessThanZero(threshold)

\* The component renders with `threshold` (the mount, or a changed threshold):
\* the previous effect's cleanup runs, then the effect
HookRender(threshold) ==
  /\ hook.phase \in {"init", "mounted"}
  /\ hook.phase = "mounted" => threshold # hook.threshold
  /\ LET run == hook.runs + 1
         cleaned == IF hook.cleanup # 0 THEN aborted \cup {hook.cleanup} ELSE aborted
     IN IF InvalidThreshold(threshold)
        THEN /\ hook' = [hook EXCEPT !.phase = "mounted", !.threshold = threshold,
                                     !.error = [kind |-> "none"], !.directors = <<>>,
                                     !.loading = FALSE, !.cleanup = 0, !.runs = run]
             /\ aborted' = cleaned
             /\ UNCHANGED <<inflightRequests, requests, calls, alls, serverPages, input, output>>
        ELSE LET signal == HookSignal(run)
                 s == getByThreshold(threshold, signal, run, inflightRequests, requests)
             IN /\ aborted' = IF hook.ref # 0 THEN cleaned \cup {hook.ref} ELSE cleaned
                /\ inflightRequests' = s.cache
                /\ requests' = s.reqs
                /\ alls' = Append(alls, s.all)
                /\ hook' = LET started == [hook EXCEPT !.phase = "mounted",
                                                        !.threshold = threshold,
                                                        !.loading = TRUE,
                                                        !.error = [kind |-> "none"],
                                                        !.ref = signal, !.cleanup = signal,
                                                        !.runs = run]
                           IN IF s.all.state = "rejected"
                              THEN HookSettled(started, s.all, aborted')
                              ELSE started
                /\ UNCHANGED <<calls, serverPages, input, output>>

\* The component unmounts: the current effect's cleanup runs
HookUnmount ==
  /\ hook.phase = "mounted"
  /\ hook' = [hook EXCEPT !.phase = "unmounted", !.cleanup = 0]
  /\ aborted' = IF hook.cleanup # 0 THEN aborted \cup {hook.cleanup} ELSE aborted
  /\ UNCHANGED <<inflightRequests, requests, calls, alls, serverPages, input, output>>

(***************************************************************************)
(* Specifications.  Each is the API with one population of callers, and    *)
(* bounds the number of calls, invocations and requests.                   *)
(***************************************************************************)
PageArgs == {0, 3} \cup {2 * p : p \in Pages}

\* Direct callers of fetchMoviesPage, every way a page request can settle
Init ==
  /\ InitState
  /\ serverPages = MaxPages

Next ==
  \/ \E h \in PageArgs, s \in {0} \cup CallerSignals :
       /\ Cardinality(calls) < MaxCalls
       /\ FetchMoviesPageCall(h, s)
       /\ Len(requests') <= MaxRequests
  \/ \E s \in CallerSignals : Abort(s)
  \/ CancelAllRequests
  \/ \E r \in DOMAIN requests : AbortSettles(r)
  \/ \E r \in DOMAIN requests, cause \in {"transport", "http500", "ok"} : FetchSettles(r, cause)
  \/ \E r \in DOMAIN requests, cause \in {"data"} : JsonSettles(r, cause)

Spec == Init /\ [][Next]_vars

\* One caller at a time, every way a page request can settle
NextErrors ==
  \/ \E h \in PageArgs, s \in {0} \cup CallerSignals :
       /\ Cardinality(calls) < MaxErrorCalls
       /\ FetchMoviesPageCall(h, s)
  \/ \E s \in CallerSignals : Abort(s)
  \/ CancelAllRequests
  \/ \E r \in DOMAIN requests : AbortSettles(r)
  \/ \E r \in DOMAIN requests, cause \in FetchCauses : FetchSettles(r, cause)
  \/ \E r \in DOMAIN requests, cause \in JsonCauses : JsonSettles(r, cause)

InitErrors ==
  /\ InitState
  /\ serverPages \in 0..MaxPages

SpecErrors == InitErrors /\ [][NextErrors]_vars

\* Callers of fetchAllMovies, each with no signal or with its own AbortController
\* (the controller of the i-th invocation is signal i)
InitAll ==
  /\ InitState
  /\ serverPages \in 0..MaxAllPages

NextAll ==
  \/ \E s \in {0, Len(alls) + 1} :
       /\ Len(alls) < MaxAlls
       /\ FetchAllMoviesCall(s)
       /\ Len(requests') <= MaxAllRequests
  \/ \E i \in DOMAIN alls : alls[i].signal = i /\ Abort(i)
  \/ CancelAllRequests
  \/ \E r \in DOMAIN requests : AbortSettles(r) /\ Len(requests') <= MaxAllRequests
  \/ \E r \in DOMAIN requests, cause \in {"transport", "ok"} :
       FetchSettles(r, cause) /\ Len(requests') <= MaxAllRequests
  \/ \E r \in DOMAIN requests, cause \in {"data"} :
       JsonSettles(r, cause) /\ Len(requests') <= MaxAllRequests

SpecAll == InitAll /\ [][NextAll]_vars

\* The hook beside a component that calls fetchAllMovies without a signal
InitHook ==
  /\ InitState
  /\ serverPages \in 1..MaxPages

NextHook ==
  \/ \E t \in Thresholds :
       /\ hook.runs < MaxHookRuns
       /\ HookRender(t)
       /\ Len(requests') <= MaxHookRequests
  \/ HookUnmount
  \/ /\ Cardinality({i \in DOMAIN alls : alls[i].owner = 0}) < MaxOtherAlls
     /\ FetchAllMoviesCall(0)
     /\ Len(requests') <= MaxHookRequests
  \/ \E r \in DOMAIN requests : AbortSettles(r) /\ Len(requests') <= MaxHookRequests
  \/ \E r \in DOMAIN requests, cause \in {"transport", "ok"} :
       FetchSettles(r, cause) /\ Len(requests') <= MaxHookRequests
  \/ \E r \in DOMAIN requests, cause \in {"data"} :
       JsonSettles(r, cause) /\ Len(requests') <= MaxHookRequests

SpecHook == InitHook /\ [][NextHook]_vars

(***************************************************************************)
(* Calls of the pure functions.  input holds the arguments of one call,    *)
(* drawn from bounded sets; the call fills output.                         *)
(***************************************************************************)
MaxMovies == 3

\* Sequences over S of length 0..n
SeqsUpTo(S, n) == UNION {[1..k -> S] : k \in 0..n}

\* Director fields as the API delivers them: "A", "a", "B", "A  B", "a b",
\* "B,A", "A, a", "", "N/A", ", ,"
DirectorFields ==
  { <<"A">>, <<"a">>, <<"B">>, <<"A", " ", " ", "B">>, <<"a", " ", "b">>,
    <<"B", ",", "A">>, <<"A", ",", " ", "a">>, <<>>, <<"N", "/", "A">>,
    <<",", " ", ",">> }

\* Lists of movies; the Title tells the records apart
MovieLists ==
  { [i \in DOMAIN ds |-> [Title |-> i, Director |-> ds[i]]] :
      ds \in SeqsUpTo(DirectorFields, MaxMovies) }

AggThresholds ==
  { <<"fin", -1>>, <<"fin", 0>>, <<"fin", 1>>, <<"fin", 2>>, <<"nan", 0>>,
    <<"inf", 1>>, <<"inf", -1>> }

\* Everything but input and output stays as constructed
ApiUnchanged ==
  UNCHANGED <<inflightRequests, requests, aborted, calls, alls, hook, serverPages>>

ApiIdle ==
  /\ inflightRequests = <<>>
  /\ requests = <<>>
  /\ aborted = {}
  /\ calls = {}
  /\ alls = <<>>
  /\ hook = [phase |-> "init", threshold |-> <<"nan", 0>>, directors |-> <<>>,
             loading |-> FALSE, error |-> [kind |-> "none"], ref |-> 0, cleanup |-> 0,
             runs |-> 0]
  /\ serverPages = 0

InitAgg ==
  /\ ApiIdle
  /\ input \in [fn : {"aggregateDirectors"}, movies : MovieLists,
                 threshold : AggThresholds]
  /\ output = [done |-> FALSE]

\* A caller evaluates aggregateDirectors(movies, threshold)
AggregateDirectorsCall ==
  /\ input.fn = "aggregateDirectors"
  /\ ~output.done
  /\ output' = [done |-> TRUE, value |-> aggregateDirectors(input.movies, input.threshold)]
  /\ input' = input
  /\ ApiUnchanged

NextAgg == AggregateDirectorsCall

SpecAgg == InitAgg /\ [][NextAgg]_vars

(***************************************************************************)
(* movieMapper.  A JS value of a raw field is [t |-> "string", v |-> s],   *)
(* [t |-> "number", v |-> n], [t |-> "null"] or [t |-> "undefined"] (a     *)
(* missing field).  number | null results are <<n>> and <<>>.  A call      *)
(* either returns a value or throws.                                       *)
(***************************************************************************)
Str(s) == [t |-> "string", v |-> s]
Num(n) == [t |-> "number", v |-> n]
JsNull == [t |-> "null"]
JsUndefined == [t |-> "undefined"]

Null == <<>>

Returned(value) == [threw |-> FALSE, value |-> value]
Threw(error) == [threw |-> TRUE, error |-> error]

IsDigit(c) == c \in {"0", "1", "2", "3", "4", "5", "6", "7", "8", "9"}

DigitValue(c) ==
  CASE c = "0" -> 0 [] c = "1" -> 1 [] c = "2" -> 2 [] c = "3" -> 3 [] c = "4" -> 4
    [] c = "5" -> 5 [] c = "6" -> 6 [] c = "7" -> 7 [] c = "8" -> 8 [] c = "9" -> 9

DigitChar(d) == <<"0", "1", "2", "3", "4", "5", "6", "7", "8", "9">>[d + 1]

\* parseInt(digits, 10) on a string of digits
RECURSIVE parseInt(_)
parseInt(digits) ==
  IF digits = <<>> THEN 0
  ELSE 10 * parseInt(SubSeq(digits, 1, Len(digits) - 1)) + DigitValue(digits[Len(digits)])

\* String(n) for a non-negative integer
RECURSIVE NumberToString(_)
NumberToString(n) ==
  IF n < 10 THEN <<DigitChar(n)>> ELSE Append(NumberToString(n \div 10), DigitChar(n % 10))

\* !value
Falsy(value) ==
  \/ value.t \in {"null", "undefined"}
  \/ value.t = "string" /\ value.v = <<>>
  \/ value.t = "number" /\ value.v = 0

\* yearStr.match(/\d{4}/): the index of the leftmost four digits in a row
\* at or after i, 0 when there is none
RECURSIVE MatchFourDigits(_, _)
MatchFourDigits(yearStr, i) ==
  IF i + 3 > Len(yearStr) THEN 0
  ELSE IF \A k \in i..(i + 3) : IsDigit(yearStr[k]) THEN i
       ELSE MatchFourDigits(yearStr, i + 1)

\* Variant of the range test that leaves out both ends
YearInOpenRange(year) == year > 1800 /\ year < 2100

\* !(year < 1800 || year > 2100)
YearInRange(year) == ~(year < 1800 \/ year > 2100)

\* parseYear on a string
parseYear(yearStr) ==
  IF yearStr = <<>> \/ yearStr = <<"N", "/", "A">> THEN Null
  ELSE LET match == MatchFourDigits(yearStr, 1) IN
       IF match = 0 THEN Null
       ELSE LET year == parseInt(SubSeq(yearStr, match, match + 3)) IN
            IF YearInRange(year) THEN <<year>> ELSE Null

\* \d+ from i: the index after the run of digits that starts at i
RECURSIVE DigitsEnd(_, _)
DigitsEnd(s, i) == IF i <= Len(s) /\ IsDigit(s[i]) THEN DigitsEnd(s, i + 1) ELSE i

\* \s* from i: the index after the run of whitespace that starts at i
RECURSIVE SpacesEnd(_, _)
SpacesEnd(s, i) == IF i <= Len(s) /\ IsSpace(s[i]) THEN SpacesEnd(s, i + 1) ELSE i

\* s has the letters of unit (lower case) at i, case ignored (the i flag)
HasAt(s, i, unit) ==
  /\ i + Len(unit) - 1 <= Len(s)
  /\ \A k \in 1..Len(unit) : ToLowerChar(s[i + k - 1]) = unit[k]

\* runtimeStr.match(/(\d+)\s*unit/i): the digits captured by the leftmost
\* match at or after i, <<>> when there is none
RECURSIVE MatchNumberUnit(_, _, _)
MatchNumberUnit(runtimeStr, i, unit) ==
  IF i > Len(runtimeStr) THEN <<>>
  ELSE IF IsDigit(runtimeStr[i])
            /\ HasAt(runtimeStr, SpacesEnd(runtimeStr, DigitsEnd(runtimeStr, i)), unit)
       THEN SubSeq(runtimeStr, i, DigitsEnd(runtimeStr, i) - 1)
       ELSE MatchNumberUnit(runtimeStr, i + 1, unit)

\* parseRuntime on a string
parseRuntime(runtimeStr) ==
  IF runtimeStr = <<>> \/ runtimeStr = <<"N", "/", "A">> THEN Null
  ELSE LET minutesMatch == MatchNumberUnit(runtimeStr, 1, <<"m", "i", "n">>)
           hoursMatch == MatchNumberUnit(runtimeStr, 1, <<"h">>)
           totalMinutes == (IF hoursMatch # <<>> THEN parseInt(hoursMatch) * 60 ELSE 0)
                           + (IF minutesMatch # <<>> THEN parseInt(minutesMatch) ELSE 0)
       IN IF totalMinutes > 0 THEN <<totalMinutes>> ELSE Null

\* safeString(value) on any value: "" for null and undefined, else
\* String(value).trim()
safeStringOf(value) ==
  IF value.t \in {"null", "undefined"} THEN <<>>
  ELSE IF value.t = "number" THEN Trim(NumberToString(value.v))
  ELSE safeString(value.v)

\* A function written for strings, called with any value: the guard
\* `!value` returns first; a number that passes it has no match() or split()
NotAString(value) == IF Falsy(value) THEN Returned(<<>>) ELSE Threw("TypeError")

parseYearOf(value) ==
  IF value.t = "string" THEN Returned(parseYear(value.v)) ELSE NotAString(value)

parseRuntimeOf(value) ==
  IF value.t = "string" THEN Returned(parseRuntime(value.v)) ELSE NotAString(value)

parseCommaSeparatedOf(value) ==
  IF value.t = "string" THEN Returned(parseCommaSeparated(value.v)) ELSE NotAString(value)

RawFields ==
  {"Title", "Year", "Rated", "Released", "Runtime", "Genre", "Director", "Writer",
   "Actors"}

normalizeMovie(movie) ==
  LET year == parseYearOf(movie.Year)
      runtime == parseRuntimeOf(movie.Runtime)
      genres == parseCommaSeparatedOf(movie.Genre)
      directors == parseCommaSeparatedOf(movie.Director)
      writers == parseCommaSeparatedOf(movie.Writer)
      actors == parseCommaSeparatedOf(movie.Actors)
  IN IF \/ year.threw \/ runtime.threw \/ genres.threw
        \/ directors.threw \/ writers.threw \/ actors.threw
     THEN Threw("TypeError")
     ELSE Returned([title |-> safeStringOf(movie.Title),
                    year |-> year.value,
                    rated |-> safeStringOf(movie.Rated),
                    released |-> safeStringOf(movie.Released),
                    runtime |-> runtime.value,
                    genres |-> genres.value,
                    directors |-> directors.value,
                    writers |-> writers.value,
                    actors |-> actors.value,
                    original |-> movie])

\* Raw values of a field: "", " ", "N/A", null, missing, 0, 1999, "1999",
\* "1h 5min"
RawValues ==
  { Str(<<>>), Str(<<" ">>), Str(<<"N", "/", "A">>), JsNull, JsUndefined, Num(0),
    Num(1999), Str(<<"1", "9", "9", "9">>),
    Str(<<"1", "h", " ", "5", "m", "i", "n">>) }

\* The five other fields of a raw record, taken together
RestOfRecord ==
  { [f \in {"Rated", "Released", "Genre", "Writer", "Actors"} |-> v] :
      v \in {Str(<<"N", "/", "A">>), JsUndefined, Num(7)} }

RawMovies ==
  { [f \in RawFields |->
       CASE f = "Title" -> c[1] [] f = "Year" -> c[2] [] f = "Runtime" -> c[3]
         [] f = "Director" -> c[4] [] OTHER -> rest[f]] :
      c \in RawValues \X RawValues \X RawValues \X RawValues, rest \in RestOfRecord }

InitNormalize ==
  /\ ApiIdle
  /\ input \in [fn : {"normalizeMovie"}, movie : RawMovies]
  /\ output = [done |-> FALSE]

\* A caller evaluates normalizeMovie(movie)
NormalizeMovieCall ==
  /\ input.fn = "normalizeMovie"
  /\ ~output.done
  /\ output' = [done |-> TRUE] @@ normalizeMovie(input.movie)
  /\ input' = input
  /\ ApiUnchanged

NextNormalize == NormalizeMovieCall

SpecNormalize == InitNormalize /\ [][NextNormalize]_vars

MaxYearLen == 5

YearChars == {"0", "1", "2", "7", "8", "9", "-"}

\* Year strings: every string over YearChars up to MaxYearLen, and "N/A",
\* " ", "1999-2000", "2101 1999"
YearStrings ==
  SeqsUpTo(YearChars, MaxYearLen)
    \cup { <<"N", "/", "A">>, <<" ">>,
           <<"1", "9", "9", "9", "-", "2", "0", "0", "0">>,
           <<"2", "1", "0", "1", " ", "1", "9", "9", "9">> }

InitYear ==
  /\ ApiIdle
  /\ input \in [fn : {"parseYear"}, yearStr : YearStrings]
  /\ output = [done |-> FALSE]

\* A caller evaluates parseYear(yearStr)
ParseYearCall ==
  /\ input.fn = "parseYear"
  /\ ~output.done
  /\ output' = [done |-> TRUE, value |-> parseYear(input.yearStr)]
  /\ input' = input
  /\ ApiUnchanged

NextYear == ParseYearCall

SpecYear == InitYear /\ [][NextYear]_vars

(***************************************************************************)
(* filters.  A filter field is [t |-> "undefined"] when absent, else       *)
(* Str(s), Num(n) or Arr(list).                                            *)
(***************************************************************************)
Arr(list) == [t |-> "array", v |-> list]

\* removeAccents: diacritics stripped
removeAccents(s) == [i \in 1..Len(s) |-> IF s[i] = "á" THEN "a" ELSE s[i]]

\* s.includes(sub)
Includes(s, sub) ==
  \E i \in 0..(Len(s) - Len(sub)) : SubSeq(s, i + 1, i + Len(sub)) = sub

\* if (filters.title) { ... return false }
TitleFails(movie, filters) ==
  /\ filters.title.t = "string" /\ filters.title.v # <<>>
  /\ LET normalizedTitle == removeAccents(ToLowerCase(movie.title))
         normalizedFilter == removeAccents(Trim(ToLowerCase(filters.title.v)))
     IN ~Includes(normalizedTitle, normalizedFilter)

\* Variant of the yearFrom filter with an exclusive bound
YearFromFailsAtBound(movie, filters) ==
  /\ filters.yearFrom.t # "undefined" /\ movie.year # Null
  /\ movie.year[1] <= filters.yearFrom.v

YearFromFails(movie, filters) ==
  /\ filters.yearFrom.t # "undefined" /\ movie.year # Null
  /\ movie.year[1] < filters.yearFrom.v

YearToFails(movie, filters) ==
  /\ filters.yearTo.t # "undefined" /\ movie.year # Null
  /\ movie.year[1] > filters.yearTo.v

GenresFail(movie, filters) ==
  /\ filters.genres.t = "array" /\ Len(filters.genres.v) > 0
  /\ LET hasMatchingGenre ==
           \E f \in DOMAIN filters.genres.v : \E g \in DOMAIN movie.genres :
             removeAccents(ToLowerCase(movie.genres[g]))
               = removeAccents(ToLowerCase(filters.genres.v[f]))
     IN ~hasMatchingGenre

DirectorFails(movie, filters) ==
  /\ filters.director.t = "string" /\ filters.director.v # <<>>
  /\ LET normalizedFilter == removeAccents(ToLowerCase(filters.director.v))
         hasMatchingDirector ==
           \E d \in DOMAIN movie.directors :
             Includes(removeAccents(ToLowerCase(movie.directors[d])), normalizedFilter)
     IN ~hasMatchingDirector

\* Variant in which passing one filter field is enough
matchesAnyFilter(movie, filters) ==
  \/ ~TitleFails(movie, filters)
  \/ ~YearFromFails(movie, filters)
  \/ ~YearToFails(movie, filters)
  \/ ~GenresFail(movie, filters)
  \/ ~DirectorFails(movie, filters)

matchesFilters(movie, filters) ==
  IF TitleFails(movie, filters) THEN FALSE
  ELSE IF YearFromFails(movie, filters) THEN FALSE
  ELSE IF YearToFails(movie, filters) THEN FALSE
  ELSE IF GenresFail(movie, filters) THEN FALSE
  ELSE IF DirectorFails(movie, filters) THEN FALSE
  ELSE TRUE

filterMovies(movies, filters) == SelectSeq(movies, LAMBDA movie : matchesFilters(movie, filters))

MaxFilterMovies == 2

\* Genres and directors of a movie, taken together: (["A", "b"], ["Ab"]),
\* (["a"], []), ([], ["á", "B"])
GenresDirectors ==
  { << << <<"A">>, <<"b">> >>, << <<"A", "b">> >> >>,
    << << <<"a">> >>, <<>> >>,
    << <<>>, << <<"á">>, <<"B">> >> >> }

NormalizedMovies ==
  { [title |-> t, year |-> y, genres |-> gd[1], directors |-> gd[2]] :
      t \in {<<"A", "b">>, <<"á">>}, y \in {Null, <<1999>>}, gd \in GenresDirectors }

Filters ==
  [ title : {JsUndefined, Str(<<" ", "a", " ">>), Str(<<"B">>)},
    yearFrom : {JsUndefined, Num(1999), Num(2000)},
    yearTo : {JsUndefined, Num(1990), Num(1999)},
    genres : {JsUndefined, Arr(<<>>), Arr(<< <<"b">>, <<"n">> >>)},
    director : {JsUndefined, Str(<<"B">>)} ]

InitFilter ==
  /\ ApiIdle
  /\ input \in [fn : {"filterMovies"},
                 movies : SeqsUpTo(NormalizedMovies, MaxFilterMovies),
                 filters : Filters]
  /\ output = [done |-> FALSE]

\* A caller evaluates filterMovies(movies, filters)
FilterMoviesCall ==
  /\ input.fn = "filterMovies"
  /\ ~output.done
  /\ output' = [done |-> TRUE, value |-> filterMovies(input.movies, input.filters)]
  /\ input' = input
  /\ ApiUnchanged

NextFilter == FilterMoviesCall

SpecFilter == InitFilter /\ [][NextFilter]_vars

(***************************************************************************)
(* paginate.  A page argument is a JS value; a finite number is given in   *)
(* halves, [t |-> "number", v |-> h] standing for h / 2, so that 1.5 is    *)
(* h = 3.  NaN and Infinity are [t |-> "nan"] and [t |-> "inf"].           *)
(***************************************************************************)
Halves(h) == [t |-> "number", v |-> h]
JsNaN == [t |-> "nan"]
JsInfinity == [t |-> "inf"]

\* typeof page === "number" && page >= 1 ? page : 1
ValidPageOf(page) ==
  IF page.t = "inf" \/ (page.t = "number" /\ page.v >= 2) THEN page ELSE Halves(2)

\* Variant of totalPages that rounds down
FloorDiv(length, itemsPerPage) == length \div itemsPerPage

\* Math.ceil(items.length / itemsPerPage), itemsPerPage an integer >= 1
CeilDiv(length, itemsPerPage) == (length + itemsPerPage - 1) \div itemsPerPage

\* Variant of startIdx that counts pages from 0
StartIdxFromZero(validPage, itemsPerPage, length) ==
  IF validPage.t = "inf" THEN 2 * length ELSE validPage.v * itemsPerPage

\* (validPage - 1) * itemsPerPage in halves; Infinity is past every index
StartIdx(validPage, itemsPerPage, length) ==
  IF validPage.t = "inf" THEN 2 * length ELSE (validPage.v - 2) * itemsPerPage

\* items.slice(start, end) for start, end >= 0 in halves: both are
\* truncated to integers and clamped to the length
Slice(items, startH, endH) ==
  LET from == IF startH \div 2 > Len(items) THEN Len(items) ELSE startH \div 2
      to == IF endH \div 2 > Len(items) THEN Len(items) ELSE endH \div 2
  IN SubSeq(items, from + 1, to)

paginate(items, config) ==
  LET page == config.page
      itemsPerPage == config.itemsPerPage
      validPage == ValidPageOf(page)
      totalPages == CeilDiv(Len(items), itemsPerPage)
      startIdx == StartIdx(validPage, itemsPerPage, Len(items))
      paginatedItems == Slice(items, startIdx, startIdx + 2 * itemsPerPage)
  IN [items |-> paginatedItems, totalPages |-> totalPages, currentPage |-> validPage,
      totalItems |-> Len(items)]

MaxItems == 4
MaxPageSize == 3

ItemLists == SeqsUpTo({"x", "y"}, MaxItems)

\* Page arguments: -1, 0, 0.5, 1, 1.5, 2, 2.5, 3, 4, NaN, Infinity, missing, "2"
PageValues ==
  {Halves(h) : h \in {-2, 0, 1, 2, 3, 4, 5, 6, 8}}
    \cup {JsNaN, JsInfinity, JsUndefined, Str(<<"2">>)}

InitPaginate ==
  /\ ApiIdle
  /\ input \in [fn : {"paginate"}, items : ItemLists,
                 config : [page : PageValues, itemsPerPage : 1..MaxPageSize]]
  /\ output = [done |-> FALSE]

\* A caller evaluates paginate(items, config)
PaginateCall ==
  /\ input.fn = "paginate"
  /\ ~output.done
  /\ output' = [done |-> TRUE, value |-> paginate(input.items, input.config)]
  /\ input' = input
  /\ ApiUnchanged

NextPaginate == PaginateCall

SpecPaginate == InitPaginate /\ [][NextPaginate]_vars

\* A caller that turns the pages from 1 to totalPages, as the page
\* navigation of useMoviesSearch does
InitPages ==
  /\ ApiIdle
  /\ input \in [fn : {"pages"}, items : ItemLists, itemsPerPage : 1..MaxPageSize]
  /\ output = [done |-> FALSE, pages |-> <<>>]

TurnPage ==
  /\ input.fn = "pages"
  /\ ~output.done
  /\ LET page == Len(output.pages) + 1
         result == paginate(input.items,
                            [page |-> Halves(2 * page), itemsPerPage |-> input.itemsPerPage])
     IN output' = [done |-> page >= result.totalPages,
                   pages |-> Append(output.pages, result)]
  /\ input' = input
  /\ ApiUnchanged

NextPages == TurnPage

SpecPages == InitPages /\ [][NextPages]_vars

(***************************************************************************)
(* getUniqueDirectors and getUniqueGenres (movieMapper.ts).                *)
(***************************************************************************)
\* normalizeGenreName: safeString(genre).toLowerCase().replace(/\s+/g, " ")
normalizeGenreName(genre) == CollapseSpaces(ToLowerCase(safeString(genre)))

\* The UTF-16 code unit of a character
CodeUnit(c) ==
  CASE c = "\t" -> 9
    [] c = "\n" -> 10
    [] c = " " -> 32
    [] c = "," -> 44
    [] c = "/" -> 47
    [] c = "A" -> 65
    [] c = "B" -> 66
    [] c = "H" -> 72
    [] c = "I" -> 73
    [] c = "M" -> 77
    [] c = "N" -> 78
    [] c = "a" -> 97
    [] c = "b" -> 98
    [] c = "h" -> 104
    [] c = "i" -> 105
    [] c = "m" -> 109
    [] c = "n" -> 110
    [] OTHER -> 255

\* The comparison of Array.prototype.sort() without a comparator: strings
\* compared by code units
RECURSIVE CodeUnitLess(_, _)
CodeUnitLess(a, b) ==
  IF b = <<>> THEN FALSE
  ELSE IF a = <<>> THEN TRUE
  ELSE IF CodeUnit(Head(a)) < CodeUnit(Head(b)) THEN TRUE
  ELSE IF CodeUnit(Head(a)) > CodeUnit(Head(b)) THEN FALSE
  ELSE CodeUnitLess(Tail(a), Tail(b))

RECURSIVE InsertDefault(_, _)
InsertDefault(sorted, x) ==
  IF sorted = <<>> THEN <<x>>
  ELSE IF CodeUnitLess(x, Head(sorted))
       THEN <<x>> \o sorted
       ELSE <<Head(sorted)>> \o InsertDefault(Tail(sorted), x)

\* values.sort()
RECURSIVE SortDefault(_)
SortDefault(values) ==
  IF values = <<>> THEN <<>>
  ELSE InsertDefault(SortDefault(SubSeq(values, 1, Len(values) - 1)), values[Len(values)])

\* The forEach loops: the tokens of every field, in record order
RECURSIVE TokensOf(_)
TokensOf(fields) ==
  IF fields = <<>> THEN <<>>
  ELSE parseCommaSeparated(Head(fields)) \o TokensOf(Tail(fields))

\* The Map after the loops, as its values in insertion order: a token is
\* stored, trimmed, when its key is not empty and not yet in the Map
RECURSIVE MapValues(_, _, _)
MapValues(tokens, keys, seen) ==
  IF tokens = <<>> THEN <<>>
  ELSE IF Head(keys) # <<>> /\ Head(keys) \notin seen
       THEN <<Trim(Head(tokens))>>
              \o MapValues(Tail(tokens), Tail(keys), seen \cup {Head(keys)})
       ELSE MapValues(Tail(tokens), Tail(keys), seen)

getUniqueDirectors(movies) ==
  LET tokens == TokensOf([i \in DOMAIN movies |-> movies[i].Director])
      keys == [i \in DOMAIN tokens |-> normalizeDirectorName(tokens[i])]
  IN SortDefault(MapValues(tokens, keys, {}))

getUniqueGenres(movies) ==
  LET tokens == TokensOf([i \in DOMAIN movies |-> movies[i].Genre])
      keys == [i \in DOMAIN tokens |-> normalizeGenreName(tokens[i])]
  IN SortDefault(MapValues(tokens, keys, {}))

MaxUniqueMovies == 2

\* Director and Genre fields: "a", "B", "A", "n, B", " a  b,A  B", "N/A"
UniqueFields ==
  { <<"a">>, <<"B">>, <<"A">>, <<"n", ",", " ", "B">>,
    <<" ", "a", " ", " ", "b", ",", "A", " ", " ", "B">>, <<"N", "/", "A">> }

UniqueMovieLists ==
  { [i \in DOMAIN fs |-> [Title |-> i, Director |-> fs[i][1], Genre |-> fs[i][2]]] :
      fs \in SeqsUpTo(UniqueFields \X UniqueFields, MaxUniqueMovies) }

InitUnique ==
  /\ ApiIdle
  /\ input \in [fn : {"getUniqueDirectors", "getUniqueGenres"}, movies : UniqueMovieLists]
  /\ output = [done |-> FALSE]

GetUniqueDirectorsCall ==
  /\ input.fn = "getUniqueDirectors"
  /\ ~output.done
  /\ output' = [done |-> TRUE, value |-> getUniqueDirectors(input.movies)]
  /\ input' = input
  /\ ApiUnchanged

GetUniqueGenresCall ==
  /\ input.fn = "getUniqueGenres"
  /\ ~output.done
  /\ output' = [done |-> TRUE, value |-> getUniqueGenres(input.movies)]
  /\ input' = input
  /\ ApiUnchanged

NextUnique == GetUniqueDirectorsCall \/ GetUniqueGenresCall

SpecUnique == InitUnique /\ [][NextUnique]_vars


(***************************************************************************)
(* Two calls of aggregateDirectors on one list, the second with a          *)
(* threshold that is not lower.                                            *)
(***************************************************************************)
\* Thresholds 0, 1, 2 and Infinity
OrderedThresholds == {<<"fin", 0>>, <<"fin", 1>>, <<"fin", 2>>, <<"inf", 1>>}

\* t1 <= t2 for two of these JS numbers
ThresholdLeq(t1, t2) ==
  \/ t1[1] = "fin" /\ t2[1] = "fin" /\ t1[2] <= t2[2]
  \/ t2[1] = "inf" /\ t2[2] > 0

InitTwice ==
  /\ ApiIdle
  /\ input \in {i \in [fn : {"aggregateTwice"}, movies : MovieLists,
                        t1 : OrderedThresholds, t2 : OrderedThresholds] :
                  ThresholdLeq(i.t1, i.t2)}
  /\ output = [done |-> FALSE, calls |-> 0]

\* const first = aggregateDirectors(movies, t1); movies is only read
AggregateLower ==
  /\ input.fn = "aggregateTwice"
  /\ output.calls = 0
  /\ output' = [done |-> FALSE, calls |-> 1,
                first |-> aggregateDirectors(input.movies, input.t1),
                movies |-> input.movies]
  /\ input' = input
  /\ ApiUnchanged

\* const second = aggregateDirectors(movies, t2), on the list as the first
\* call left it
AggregateHigher ==
  /\ input.fn = "aggregateTwice"
  /\ output.calls = 1
  /\ output' = [done |-> TRUE, calls |-> 2, first |-> output.first,
                second |-> aggregateDirectors(output.movies, input.t2),
                movies |-> output.movies]
  /\ input' = input
  /\ ApiUnchanged

NextTwice == AggregateLower \/ AggregateHigher

SpecTwice == InitTwice /\ [][NextTwice]_vars

(***************************************************************************)
(* Properties.                                                             *)
(***************************************************************************)
PendingRequests == {r \in DOMAIN requests : IsPending(requests[r])}

\* C1: while a request for page p is in flight no second network request for
\* p is outstanding: at most one pending request per page number.
C1_OneRequestPerPage ==
  \A r1, r2 \in PendingRequests : requests[r1].page = requests[r2].page => r1 = r2

\* C2: the cache holds entries of pending requests only (so it is empty when
\* nothing is pending), and a call for a page none of whose requests is
\* pending dispatches a new request.
C2_NoStaleEntry ==
  /\ \A p \in DOMAIN inflightRequests :
       /\ inflightRequests[p] \in PendingRequests
       /\ requests[inflightRequests[p]].page = p
  /\ PendingRequests = {} => MapSize(inflightRequests) = 0
  /\ \A p \in 1..MaxPages :
       (\A r \in PendingRequests : requests[r].page # p)
         => fetchMoviesPage(2 * p, 0, inflightRequests, requests).req = Len(requests) + 1

\* C2 witness: a request has settled and a later request for its page is
\* registered in its place
C2_Witness ==
  \E r1, r2 \in DOMAIN requests :
    /\ r1 < r2
    /\ requests[r1].page = requests[r2].page
    /\ requests[r1].pc = "done"
    /\ r2 \in PendingRequests
    /\ MapHas(inflightRequests, requests[r2].page)
    /\ inflightRequests[requests[r2].page] = r2

\* The data of pages p..n in page order
RECURSIVE AllPagesData(_, _)
AllPagesData(p, n) ==
  IF p > n THEN <<>> ELSE MoviesResponse(p, n).data \o AllPagesData(p + 1, n)

\* C3: a resolved fetchAllMovies holds the data of pages 1..total_pages in
\* page order, whatever the order in which its requests settled.
C3_PageOrder ==
  \A i \in DOMAIN alls :
    alls[i].state = "resolved" => alls[i].movies = AllPagesData(1, serverPages)

\* C3 witness: an invocation over three pages or more has resolved, having
\* shared a page request with another invocation
C3_Witness ==
  \E i, j \in DOMAIN alls :
    /\ i # j
    /\ alls[i].state = "resolved"
    /\ Len(alls[i].promises) >= 3
    /\ Range(alls[i].promises) \cap Range(alls[j].promises) # {}

AllSettled(a) == a.state \in {"resolved", "rejected"}

\* The all-or-nothing state of every invocation: resolved only with every page
\* fulfilled and every movie present; rejected as soon as one page is rejected
C4_State ==
  \A i \in DOMAIN alls :
    LET a == alls[i] IN
    /\ a.state = "resolved" =>
         /\ \A q \in Range(a.promises) : requests[q].result.kind = "data"
         /\ (1..serverPages) \subseteq {requests[q].page : q \in Range(a.promises)}
         /\ Len(a.movies) = Len(AllPagesData(1, serverPages))
    /\ (\E q \in Range(a.promises) : requests[q].result.kind = "error") =>
         /\ a.state = "rejected"
         /\ a.error.kind = "error"

\* C4: fetchAllMovies is all-or-nothing, and it rejects with the error of the
\* first of its page requests to fail: it becomes rejected in the step in
\* which that request settles, and never changes afterwards.
C4_AllOrNothing ==
  [][/\ C4_State'
     /\ \A i \in DOMAIN alls :
          /\ (~AllSettled(alls[i]) /\ alls'[i].state = "rejected") =>
               \E q \in Range(alls[i].promises) :
                 /\ IsPending(requests[q])
                 /\ requests'[q].result = alls'[i].error
          /\ AllSettled(alls[i]) => alls'[i] = alls[i]]_vars

\* C4 witness: an invocation was rejected although one of its later pages
\* had already been fulfilled
C4_Witness ==
  \E i \in DOMAIN alls :
    /\ alls[i].state = "rejected"
    /\ Len(alls[i].promises) >= 3
    /\ \E q \in Range(Tail(alls[i].promises)) : requests[q].result.kind = "data"

\* C5: a caller whose signal is aborted while its promise is pending gets
\* AbortError: its promise stays pending or rejects with AbortError.
C5_AbortedCallerGetsAbortError ==
  [][\A c \in calls :
       (c.result.kind = "pending" /\ c.signal # 0 /\ c.signal \in aborted)
         => (c \in calls' \/ [c EXCEPT !.result = AbortError] \in calls')]_vars

\* C6: a call with a page that is not an integer >= 1 rejects with
\* ValidationError, dispatches no request and leaves the cache unchanged.
C6_InvalidPageRejected ==
  [][\A c \in calls' \ calls :
       (c.page % 2 # 0 \/ c.page < 2) =>
         /\ c.result.kind = "error"
         /\ c.result.name = "ValidationError"
         /\ c.req = 0
         /\ requests' = requests
         /\ inflightRequests' = inflightRequests]_vars

\* C6 witness: page 1.5 was rejected with ValidationError while a request
\* was in the cache
C6_Witness ==
  \E c \in calls :
    /\ c.page = 3
    /\ c.result.kind = "error"
    /\ c.result.name = "ValidationError"
    /\ MapSize(inflightRequests) > 0

\* C7: a failed page request reports the kind its cause determines, and its
\* callers receive exactly that result.
C7_ErrorKinds ==
  /\ \A r \in DOMAIN requests :
       requests[r].pc = "done" =>
         LET res == requests[r].result
             cause == requests[r].cause
         IN IF cause = "data" THEN res.kind = "data"
            ELSE /\ res.kind = "error"
                 /\ CASE cause = "abort" ->
                           res.name = "AbortError" /\ requests[r].signal \in aborted
                      [] cause = "transport" ->
                           res.name = "NetworkError" /\ res.originalError = "TypeError"
                      [] cause = "http404" -> res.name = "ApiError" /\ res.statusCode = 404
                      [] cause = "http500" -> res.name = "ApiError" /\ res.statusCode = 500
                      [] cause = "syntax" ->
                           res.name = "ApiError" /\ res.originalError = "SyntaxError"
                      [] cause \in {"notObject", "noDataArray"} -> res.name = "ApiError"
  /\ \A c \in calls : c.req # 0 => c.result = requests[c.req].result

\* C7 witness: a transport failure was reported to a caller as NetworkError
C7_Witness ==
  \E c \in calls :
    /\ c.req # 0
    /\ requests[c.req].cause = "transport"
    /\ c.result.kind = "error"
    /\ c.result.name = "NetworkError"

\* C8: after cancelAllRequests() no request that was in flight is still in
\* flight.
C8_CancelAllCancels ==
  [][CancelAllRequests => \A r \in DOMAIN requests : ~IsPending(requests'[r])]_vars

\* C9: getInflightRequestCount() is the number of requests dispatched and
\* not yet settled.
C9_CountIsPending == getInflightRequestCount = Cardinality(PendingRequests)

\* No page request failed in the network (a rejection caused by abort() is
\* not a network failure)
NetworkSucceeded ==
  \A r \in DOMAIN requests : requests[r].cause \in {"none", "abort", "data"}

\* C10: once the request of the latest threshold has settled, the hook shows
\* its result: the directors for that threshold, loading false, and error
\* null when the network succeeded.
C10_LatestResultShown ==
  \A i \in DOMAIN alls :
    (/\ hook.phase = "mounted"
     /\ alls[i].owner # 0
     /\ alls[i].owner = hook.runs
     /\ AllSettled(alls[i])
     /\ NetworkSucceeded)
      => /\ hook.loading = FALSE
         /\ hook.error = [kind |-> "none"]
         /\ hook.directors = aggregateDirectors(AllPagesData(1, serverPages), hook.threshold)

\* aggregateDirectors has returned
Aggregated == input.fn = "aggregateDirectors" /\ output.done

\* The non-empty tokens of the director fields, in record order
RECURSIVE DirectorTokens(_)
DirectorTokens(movies) ==
  IF movies = <<>> THEN <<>>
  ELSE parseCommaSeparated(Head(movies).Director) \o DirectorTokens(Tail(movies))

\* The normalized keys of the directors of at least one movie
DirectorKeys(movies) ==
  {normalizeDirectorName(tok) : tok \in Range(DirectorTokens(movies))} \ {<<>>}

OutputKeys == {normalizeDirectorName(output.value[i].name) : i \in DOMAIN output.value}

NegativeThreshold == input.threshold[1] \in {"fin", "inf"} /\ input.threshold[2] < 0

C12_NegativeThresholdAll ==
  (Aggregated /\ NegativeThreshold) => OutputKeys = DirectorKeys(input.movies)

\* How often a director key occurs among the tokens of all records
Occurrences(movies, key) ==
  LET toks == DirectorTokens(movies) IN
  Cardinality({i \in DOMAIN toks : normalizeDirectorName(toks[i]) = key})

\* count > t for the thresholds t >= 0 (nothing is greater than +Infinity)
AboveThreshold(count) == input.threshold[1] = "fin" /\ count > input.threshold[2]

NonNegativeThreshold == input.threshold[1] \in {"fin", "inf"} /\ input.threshold[2] >= 0

\* C13: for every threshold t >= 0 the result holds exactly the directors whose
\* count is strictly greater than t: every returned count is > t and no
\* director with count > t is missing.
C13_StrictlyGreater ==
  (Aggregated /\ NonNegativeThreshold) =>
    /\ \A i \in DOMAIN output.value : AboveThreshold(output.value[i].count)
    /\ OutputKeys = {k \in DirectorKeys(input.movies) :
                       AboveThreshold(Occurrences(input.movies, k))}

\* C13 witness: with threshold 1 a director of one movie was left out and a
\* director of two movies was returned
C13_Witness ==
  /\ Aggregated
  /\ input.threshold = <<"fin", 1>>
  /\ \E k \in DirectorKeys(input.movies) : Occurrences(input.movies, k) = 1
  /\ Len(output.value) = 1
  /\ output.value[1].count = 2

\* The rank of a character when case is ignored
FoldedRank(c) ==
  CASE c \in {" ", "\t", "\n"} -> 1
    [] c = "," -> 2
    [] c = "/" -> 3
    [] c \in {"a", "A"} -> 4
    [] c \in {"b", "B"} -> 5
    [] c \in {"n", "N"} -> 6
    [] OTHER -> 7

\* a <= b in the lexicographic order of the folded ranks
CaseInsensitiveLeq(a, b) ==
  \E k \in 0..Len(a) :
    /\ k <= Len(b)
    /\ \A i \in 1..k : FoldedRank(a[i]) = FoldedRank(b[i])
    /\ \/ k = Len(a)
       \/ k < Len(b) /\ FoldedRank(a[k + 1]) < FoldedRank(b[k + 1])

\* C14: the output of aggregateDirectors is sorted ascending by name under
\* case-insensitive comparison, and no two entries share a normalized key.
C14_SortedUniqueKeys ==
  Aggregated =>
    \A i, j \in DOMAIN output.value :
      i < j => /\ CaseInsensitiveLeq(output.value[i].name, output.value[j].name)
               /\ normalizeDirectorName(output.value[i].name)
                    # normalizeDirectorName(output.value[j].name)

\* C14 witness: a lower-case name was returned before an upper-case name that
\* came first in the input
C14_Witness ==
  /\ Aggregated
  /\ Len(output.value) >= 2
  /\ output.value[1].name = <<"a">>
  /\ output.value[2].name = <<"B">>
  /\ Head(DirectorTokens(input.movies)) = <<"B">>

\* The words of a string: its maximal runs of non-whitespace, case-folded
RECURSIVE Words(_, _)
Words(s, word) ==
  IF s = <<>> THEN (IF word = <<>> THEN <<>> ELSE <<word>>)
  ELSE IF Head(s) \in {" ", "\t", "\n"}
       THEN (IF word = <<>> THEN <<>> ELSE <<word>>) \o Words(Tail(s), <<>>)
       ELSE Words(Tail(s), Append(word, ToLowerChar(Head(s))))

\* Two tokens are equal after trimming, collapsing whitespace and case-folding
SameDirector(a, b) == Words(a, <<>>) = Words(b, <<>>)

\* The positions of the separators of a field, with both ends
Cuts(s) == {0, Len(s) + 1} \cup {i \in 1..Len(s) : s[i] = ","}

\* The comma-separated tokens of every record: <<record, start, text>>
FieldTokens(movies) ==
  { <<m, a, SubSeq(movies[m].Director, a + 1, b - 1)>> :
      <<m, a, b>> \in
        { <<m, a, b>> \in (DOMAIN movies) \X (0..5) \X (1..6) :
            /\ movies[m].Director # <<"N", "/", "A">>
            /\ a \in Cuts(movies[m].Director)
            /\ b \in Cuts(movies[m].Director)
            /\ a < b
            /\ \A c \in Cuts(movies[m].Director) : ~(a < c /\ c < b) } }

\* The tokens that are not empty after trimming
NamedTokens(movies) == {t \in FieldTokens(movies) : Words(t[3], <<>>) # <<>>}

\* C15: at threshold 0, where every group is returned, two tokens are in one
\* group iff they are equal after trimming, collapsing whitespace and
\* case-folding; empty tokens are in no group; every non-empty token adds one
\* to the count of its group.
C15_Grouping ==
  (Aggregated /\ input.threshold = <<"fin", 0>>) =>
    LET toks == NamedTokens(input.movies) IN
    /\ \A t \in toks :
         Cardinality({i \in DOMAIN output.value :
                        SameDirector(output.value[i].name, t[3])}) = 1
    /\ \A i \in DOMAIN output.value :
         /\ output.value[i].count >= 1
         /\ output.value[i].count =
              Cardinality({t \in toks : SameDirector(output.value[i].name, t[3])})

\* C15 witness: "A  B" and "a b" were counted as one director, next to a
\* record without any director
C15_Witness ==
  /\ Aggregated
  /\ input.threshold = <<"fin", 0>>
  /\ \E m1, m2, m3 \in DOMAIN input.movies :
       /\ input.movies[m1].Director = <<"A", " ", " ", "B">>
       /\ input.movies[m2].Director = <<"a", " ", "b">>
       /\ input.movies[m3].Director = <<",", " ", ",">>
  /\ Len(output.value) = 1
  /\ output.value[1].count = 2

\* The first token of a director key, as parseCommaSeparated delivers it
FirstOccurrence(movies, key) ==
  LET toks == DirectorTokens(movies)
      first == CHOOSE i \in DOMAIN toks :
                 /\ normalizeDirectorName(toks[i]) = key
                 /\ \A j \in 1..(i - 1) : normalizeDirectorName(toks[j]) # key
  IN toks[first]

\* A string trimmed and with every run of whitespace collapsed, casing kept
RECURSIVE Squeeze(_, _)
Squeeze(s, gap) ==
  IF s = <<>> THEN <<>>
  ELSE IF Head(s) \in {" ", "\t", "\n"}
       THEN Squeeze(Tail(s), TRUE)
       ELSE (IF gap THEN <<" ">> ELSE <<>>) \o <<Head(s)>> \o Squeeze(Tail(s), FALSE)

\* C16: the name of every returned entry is the first occurrence of that
\* director in the records, casing kept, trimmed and with runs of internal
\* whitespace collapsed to one space.
C16_FirstOccurrenceName ==
  Aggregated =>
    \A i \in DOMAIN output.value :
      output.value[i].name =
        Squeeze(TrimStart(FirstOccurrence(input.movies,
                                          normalizeDirectorName(output.value[i].name))),
                FALSE)

\* C17: the count of every returned entry is the number of records whose
\* director field holds a token with that director's normalized key.
C17_CountIsMovies ==
  Aggregated =>
    \A i \in DOMAIN output.value :
      output.value[i].count =
        Cardinality({m \in DOMAIN input.movies :
                       \E tok \in Range(parseCommaSeparated(input.movies[m].Director)) :
                         normalizeDirectorName(tok)
                           = normalizeDirectorName(output.value[i].name)})

\* A raw value that is missing, empty, whitespace-only, "N/A" or not a string
Degenerate(value) ==
  \/ value.t # "string"
  \/ value.v = <<"N", "/", "A">>
  \/ \A i \in DOMAIN value.v : value.v[i] \in {" ", "\t", "\n"}

\* C18: normalizeMovie is total: for every raw record it returns a
\* NormalizedMovie and never throws, and a field that is empty,
\* whitespace-only, "N/A", missing or not a string comes out absent or empty.
C18_NormalizeTotal ==
  (input.fn = "normalizeMovie" /\ output.done) =>
    /\ ~output.threw
    /\ Degenerate(input.movie.Year) => output.value.year = <<>>
    /\ Degenerate(input.movie.Runtime) => output.value.runtime = <<>>
    /\ Degenerate(input.movie.Director) => output.value.directors = <<>>
    /\ Degenerate(input.movie.Genre) => output.value.genres = <<>>

\* The positions at which four digits in a row start
FourDigitStarts(s) ==
  {i \in 1..(Len(s) - 3) : \A k \in 0..3 : s[i + k] \in {DigitChar(d) : d \in 0..9}}

\* The number written by the four digits that start at i
FourDigitValue(s, i) ==
  1000 * DigitValue(s[i]) + 100 * DigitValue(s[i + 1]) + 10 * DigitValue(s[i + 2])
    + DigitValue(s[i + 3])

\* C19: parseYear returns the value of the first four consecutive digits when
\* it is within [1800, 2100], and null in every other case; digits after
\* them are ignored.
C19_ParseYear ==
  (input.fn = "parseYear" /\ output.done) =>
    LET starts == FourDigitStarts(input.yearStr) IN
    IF starts = {} THEN output.value = <<>>
    ELSE LET first == CHOOSE i \in starts : \A j \in starts : i <= j
             year == FourDigitValue(input.yearStr, first)
         IN IF 1800 <= year /\ year <= 2100
            THEN output.value = <<year>>
            ELSE output.value = <<>>

\* C19 witness: "1999-2000" was parsed as 1999
C19_Witness ==
  /\ input.fn = "parseYear"
  /\ output.done
  /\ input.yearStr = <<"1", "9", "9", "9", "-", "2", "0", "0", "0">>
  /\ output.value = <<1999>>

\* A character with case and accent folded
Folded(c) ==
  CASE c \in {"A", "a", "á"} -> "a"
    [] c \in {"B", "b"} -> "b"
    [] c \in {"N", "n"} -> "n"
    [] OTHER -> c

\* sub occurs in s, case and accents ignored
FoldedSubstring(sub, s) ==
  \E i \in 1..(Len(s) + 1) :
    \A k \in 1..Len(sub) : i + k - 1 <= Len(s) /\ Folded(s[i + k - 1]) = Folded(sub[k])

FoldedEqual(a, b) == Len(a) = Len(b) /\ \A i \in 1..Len(a) : Folded(a[i]) = Folded(b[i])

\* s without the whitespace at its ends
Stripped(s) ==
  LET solid == {i \in 1..Len(s) : s[i] \notin {" ", "\t", "\n"}} IN
  IF solid = {} THEN <<>>
  ELSE SubSeq(s, CHOOSE i \in solid : \A j \in solid : i <= j,
                 CHOOSE i \in solid : \A j \in solid : j <= i)

Absent(field) == field.t = "undefined"

\* The movie satisfies every filter field that is present
Satisfies(movie, filters) ==
  /\ Absent(filters.title) \/ FoldedSubstring(Stripped(filters.title.v), movie.title)
  /\ Absent(filters.yearFrom) \/ movie.year = <<>> \/ movie.year[1] >= filters.yearFrom.v
  /\ Absent(filters.yearTo) \/ movie.year = <<>> \/ movie.year[1] <= filters.yearTo.v
  /\ \/ Absent(filters.genres)
     \/ filters.genres.v = <<>>
     \/ \E f \in Range(filters.genres.v), g \in Range(movie.genres) : FoldedEqual(f, g)
  /\ \/ Absent(filters.director)
     \/ \E d \in Range(movie.directors) : FoldedSubstring(filters.director.v, d)

\* C20: filterMovies returns exactly the movies that satisfy every active
\* filter field, in their input order and unchanged; with no filters it
\* returns all input movies in order.
C20_FilterExact ==
  (input.fn = "filterMovies" /\ output.done) =>
    LET kept == {i \in DOMAIN input.movies : Satisfies(input.movies[i], input.filters)} IN
    /\ Len(output.value) = Cardinality(kept)
    /\ \A k \in DOMAIN output.value :
         output.value[k] =
           input.movies[CHOOSE i \in kept : Cardinality({j \in kept : j <= i}) = k]
    /\ (\A f \in DOMAIN input.filters : Absent(input.filters[f]))
         => output.value = input.movies

\* C20 witness: with a title and a genres filter the first of two movies was
\* dropped and the second returned
C20_Witness ==
  /\ input.fn = "filterMovies"
  /\ output.done
  /\ ~Absent(input.filters.title)
  /\ ~Absent(input.filters.genres) /\ input.filters.genres.v # <<>>
  /\ Len(input.movies) = 2
  /\ input.movies[1] # input.movies[2]
  /\ output.value = <<input.movies[2]>>

Filtered == input.fn = "filterMovies" /\ output.done

InOutput(movie) == \E k \in DOMAIN output.value : output.value[k] = movie

\* The filters without their year bounds
WithoutYears(filters) ==
  [filters EXCEPT !.yearFrom = [t |-> "undefined"], !.yearTo = [t |-> "undefined"]]

\* C21: the year filters are inclusive bounds: with no other filter a movie of
\* known year passes iff yearFrom <= year (if set) and year <= yearTo (if
\* set); a movie without year is never excluded by the year filters.
C21_YearBoundsInclusive ==
  Filtered =>
    \A i \in DOMAIN input.movies :
      LET movie == input.movies[i]
          filters == input.filters
      IN /\ (movie.year # <<>> /\ Satisfies(movie, WithoutYears(filters))) =>
              (InOutput(movie) <=>
                 /\ Absent(filters.yearFrom) \/ filters.yearFrom.v <= movie.year[1]
                 /\ Absent(filters.yearTo) \/ movie.year[1] <= filters.yearTo.v)
         /\ movie.year = <<>> => (InOutput(movie) <=> Satisfies(movie, WithoutYears(filters)))

\* C21 witness: with yearFrom = yearTo = 1999 a movie of 1999 and a movie
\* without year were both returned
C21_Witness ==
  /\ Filtered
  /\ input.filters.yearFrom = [t |-> "number", v |-> 1999]
  /\ input.filters.yearTo = [t |-> "number", v |-> 1999]
  /\ Len(output.value) = 2
  /\ output.value[1].year = <<1999>>
  /\ output.value[2].year = <<>>

Paginated == input.fn = "paginate" /\ output.done

IntegerPage(page) == page.t = "number" /\ page.v % 2 = 0 /\ page.v >= 2

\* The items of page 1
FirstPage == SubSeq(input.items, 1,
                    IF input.config.itemsPerPage < Len(input.items)
                    THEN input.config.itemsPerPage ELSE Len(input.items))

\* C23: a page that is < 1 or not an integer is coerced to 1: currentPage is
\* always an integer >= 1 and the slice is that of page 1; a valid page
\* beyond the last page yields no items.
C23_PageCoerced ==
  Paginated =>
    /\ IntegerPage(output.value.currentPage)
    /\ ~IntegerPage(input.config.page) =>
         /\ output.value.currentPage = [t |-> "number", v |-> 2]
         /\ output.value.items = FirstPage
    /\ (IntegerPage(input.config.page)
        /\ input.config.page.v > 2 * output.value.totalPages) => output.value.items = <<>>

\* The items of the pages turned so far, in order
RECURSIVE ConcatPages(_)
ConcatPages(pages) ==
  IF pages = <<>> THEN <<>> ELSE Head(pages).items \o ConcatPages(Tail(pages))

\* C29: for every integer page size n >= 1 the pages 1..totalPages of
\* paginate, concatenated in order, are the input list, and every page but
\* the last holds exactly n items.
C29_PagesPartition ==
  (input.fn = "pages" /\ output.done) =>
    /\ ConcatPages(output.pages) = input.items
    /\ \A k \in 1..(Len(output.pages) - 1) :
         Len(output.pages[k].items) = input.itemsPerPage
    /\ \A k \in DOMAIN output.pages : Len(output.pages[k].items) <= input.itemsPerPage
    /\ Len(input.items) > 0 => Len(output.pages) = output.pages[1].totalPages

\* C29 witness: a list of four items was returned in two pages of three and
\* one items
C29_Witness ==
  /\ input.fn = "pages"
  /\ output.done
  /\ input.itemsPerPage = 3
  /\ Len(input.items) = 4
  /\ Len(output.pages) = 2
  /\ Len(output.pages[2].items) = 1

\* The field that a unique-values call reads, per record
UniqueSource ==
  [i \in DOMAIN input.movies |->
     IF input.fn = "getUniqueDirectors" THEN input.movies[i].Director
     ELSE input.movies[i].Genre]

\* C24: getUniqueDirectors and getUniqueGenres return one entry per normalized
\* key, each entry the first-seen token of that key, trimmed, and the entries
\* are sorted by the case-insensitive rule of the aggregateDirectors output.
C24_UniqueSorted ==
  (input.fn \in {"getUniqueDirectors", "getUniqueGenres"} /\ output.done) =>
    LET toks == TokensOf(UniqueSource)
        keys == {normalizeDirectorName(toks[i]) : i \in DOMAIN toks} \ {<<>>}
    IN /\ \A k \in keys :
            \E i \in DOMAIN output.value :
              /\ normalizeDirectorName(output.value[i]) = k
              /\ \E t \in DOMAIN toks :
                   /\ normalizeDirectorName(toks[t]) = k
                   /\ \A u \in 1..(t - 1) : normalizeDirectorName(toks[u]) # k
                   /\ output.value[i] = Trim(toks[t])
       /\ Len(output.value) = Cardinality(keys)
       /\ \A i, j \in DOMAIN output.value :
            i < j => CaseInsensitiveLeq(output.value[i], output.value[j])


\* The threshold of the current render is NaN, infinite or negative
ThresholdRejected == hook.threshold[1] # "fin" \/ hook.threshold[2] < 0

RequestedPages == {requests[r].page : r \in DOMAIN requests}

\* C26: a fetchAllMovies invocation that is the only caller dispatches one
\* request for page 1; requests for other pages exist only once page 1 has
\* resolved, and then there is exactly one for each page 2..total_pages; when
\* total_pages <= 1 the request of page 1 is the only one and the invocation
\* has returned page 1's data.
C26_OneRequestPerPage ==
  (Len(alls) = 1 /\ calls = {}) =>
    LET a == alls[1]
        first == requests[a.promises[1]]
    IN /\ Len(requests) >= 1
       /\ first.page = 1
       /\ \A r1, r2 \in DOMAIN requests :
            requests[r1].page = requests[r2].page => r1 = r2
       /\ first.result.kind # "data" => Len(requests) = 1
       /\ (first.result.kind = "data" /\ first.result.total_pages > 1) =>
            RequestedPages = 1..first.result.total_pages
       /\ (first.result.kind = "data" /\ first.result.total_pages <= 1) =>
            /\ Len(requests) = 1
            /\ a.state = "resolved"
            /\ a.movies = first.result.data

\* C26 witness: the only invocation resolved after three pages, the requests
\* of pages 2 and 3 dispatched after the first
C26_Witness ==
  /\ Len(alls) = 1
  /\ calls = {}
  /\ serverPages = 3
  /\ alls[1].state = "resolved"
  /\ Len(requests) = 3
  /\ alls[1].promises = <<1, 2, 3>>


\* A promise result that is a rejection with AbortError
IsAbortError(result) == result.kind = "error" /\ result.name = "AbortError"

\* C27: a caller of fetchMoviesPage or fetchAllMovies that passed no signal,
\* or whose signal is not aborted, has not received AbortError.
C27_UnabortedNeverAbortError ==
  /\ \A c \in calls :
       (c.signal = 0 \/ c.signal \notin aborted) => ~IsAbortError(c.result)
  /\ \A i \in DOMAIN alls :
       (alls[i].signal = 0 \/ alls[i].signal \notin aborted)
         => ~(alls[i].state = "rejected" /\ IsAbortError(alls[i].error))


\* C28: when a request settles, every cache entry that another, still pending
\* request registered stays in the cache.
C28_CleanupOwnEntryOnly ==
  [][\A r \in DOMAIN requests :
       (IsPending(requests[r]) /\ ~IsPending(requests'[r])) =>
         \A p \in DOMAIN inflightRequests :
           (inflightRequests[p] # r /\ IsPending(requests'[inflightRequests[p]]))
             => (MapHas(inflightRequests', p)
                 /\ inflightRequests'[p] = inflightRequests[p])]_vars


\* s is t with some entries left out, the order kept
RECURSIVE IsSubsequence(_, _)
IsSubsequence(s, t) ==
  IF s = <<>> THEN TRUE
  ELSE IF t = <<>> THEN FALSE
  ELSE IF Head(s) = Head(t) THEN IsSubsequence(Tail(s), Tail(t))
  ELSE IsSubsequence(s, Tail(t))

\* C30: for thresholds 0 <= t1 <= t2 the result for t2 is a subsequence of
\* the result for t1, the entries kept having the same name and count, and
\* the list of movies is as it was before the calls.
C30_MonotoneInThreshold ==
  (input.fn = "aggregateTwice" /\ output.done) =>
    /\ IsSubsequence(output.second, output.first)
    /\ output.movies = input.movies

\* C30 witness: the higher threshold kept some of several directors and
\* dropped others
C30_Witness ==
  /\ input.fn = "aggregateTwice"
  /\ output.done
  /\ input.t1 # input.t2
  /\ Len(output.first) >= 2
  /\ Len(output.second) >= 1
  /\ Len(output.second) < Len(output.first)


====
